---- MODULE Spec2Model ----
(***************************************************************************)
(* Content pipeline of the blog: src/src/data.rs (directory enumeration,   *)
(* front matter, post assembly) and the build-state functions of           *)
(* src/src/templates/index.rs and src/src/templates/post.rs.               *)
(*                                                                         *)
(* Text is a sequence of atoms.  An atom is one character that matters to  *)
(* the code ("-", the newline, the double quote) or a chunk of text that   *)
(* holds none of them ("title: Hello", "src=", "a.png").                   *)
(***************************************************************************)
EXTENDS Integers, Sequences, FiniteSets, TLC

VARIABLES root, md, call, arg, ret

vars == <<root, md, call, arg, ret>>

(* ------------------------------ bounds -------------------------------- *)

MaxEntries == 3

MaxParts == 5

MaxHtml == 7

(* --------------------------- Option, Result --------------------------- *)

None == <<>>

Some(x) == <<x>>

Ok(v) == [ok |-> TRUE, msg |-> "", val |-> v]

Panic(m) == [ok |-> FALSE, msg |-> m, val |-> <<>>]

(* ------------------------------- text --------------------------------- *)

Hyphen == "-"

Newline == "LF"

Quote == "QUOTE"

SrcEq == "src="

Marker == <<Hyphen, Hyphen, Hyphen>>

TitleLine == "title: Hello"

DescriptionLine == "description: About"

ImageLine == "image: cover.png"

BadDateLine == "date: yesterday"

DateLines ==
    { "date: 2023-01-01T02:00:00+02:00", "date: 2023-01-01T01:00:00+00:00",
      "date: 2023-01-01T03:00:00+02:00", "date: 2023-01-01T02:00:00+00:00" }

FieldChunks == {TitleLine, DescriptionLine, ImageLine, BadDateLine} \cup DateLines

RECURSIVE Concat(_)
Concat(ss) == IF ss = <<>> THEN <<>> ELSE Head(ss) \o Concat(Tail(ss))

SeqsUpTo(S, n) == UNION {[1..k -> S] : k \in 0..n}

IsAt(s, pat, i) ==
    /\ i + Len(pat) - 1 <= Len(s)
    /\ \A k \in 1..Len(pat) : s[i + k - 1] = pat[k]

Min(S) == CHOOSE m \in S : \A x \in S : m <= x

(* str::split_once(pat): the text before and after the first occurrence    *)
(* of pat, or None when pat does not occur.                                *)
split_once(s, pat) ==
    LET hits == {i \in 1..Len(s) : IsAt(s, pat, i)}
    IN  IF hits = {} THEN None
        ELSE LET i == Min(hits)
             IN  Some(<<SubSeq(s, 1, i - 1), SubSeq(s, i + Len(pat), Len(s))>>)

(* The lines of a text: the pieces between its newlines.                   *)
Lines(s) ==
    LET nl == {p \in 1..Len(s) : s[p] = Newline}
        n == Cardinality(nl)
        at == [k \in 1..n |-> CHOOSE p \in nl : Cardinality({q \in nl : q <= p}) = k]
    IN  [k \in 1..(n + 1) |->
           SubSeq(s, IF k = 1 THEN 1 ELSE at[k - 1] + 1,
                     IF k = n + 1 THEN Len(s) ELSE at[k] - 1)]

(* ---------------------- chrono::DateTime<FixedOffset> ------------------ *)

(* The timestamp a date line holds: its local hour and its UTC offset.     *)
parse_date(chunk) ==
    CASE chunk = "date: 2023-01-01T02:00:00+02:00" -> Some([local |-> 2, offset |-> 2])
      [] chunk = "date: 2023-01-01T01:00:00+00:00" -> Some([local |-> 1, offset |-> 0])
      [] chunk = "date: 2023-01-01T03:00:00+02:00" -> Some([local |-> 3, offset |-> 2])
      [] chunk = "date: 2023-01-01T02:00:00+00:00" -> Some([local |-> 2, offset |-> 0])
      [] OTHER -> None

(* DateTime's Ord and Eq compare the UTC instant, not the local time.      *)
instant(date) == date.local - date.offset

(* ------------------------------ serde_yaml ---------------------------- *)

KeyOf(chunk) ==
    CASE chunk = TitleLine -> "title"
      [] chunk = DescriptionLine -> "description"
      [] chunk = ImageLine -> "image"
      [] OTHER -> "date"

ValueOf(chunk) ==
    CASE chunk = TitleLine -> "Hello"
      [] chunk = DescriptionLine -> "About"
      [] chunk = ImageLine -> "cover.png"
      [] OTHER -> chunk

AllHyphens(s) == \A k \in 1..Len(s) : s[k] = Hyphen

(* One line of the metadata: blank, a `key: value` pair, a pair whose key  *)
(* the struct does not know (hyphens glued to the key), or no mapping line *)
(* at all (a lone "-" or "--", two pairs on one line).                     *)
yaml_line(line) ==
    IF line = <<>> THEN [kind |-> "blank", key |-> "", chunk |-> "", tail |-> <<>>]
    ELSE IF line[1] \in FieldChunks /\ AllHyphens(Tail(line))
    THEN [kind |-> "pair", key |-> KeyOf(line[1]), chunk |-> line[1], tail |-> Tail(line)]
    ELSE IF /\ line[1] = Hyphen
            /\ \E k \in 2..Len(line) :
                  /\ line[k] \in FieldChunks
                  /\ AllHyphens(SubSeq(line, 1, k - 1))
                  /\ AllHyphens(SubSeq(line, k + 1, Len(line)))
    THEN [kind |-> "unknown", key |-> "", chunk |-> "", tail |-> <<>>]
    ELSE [kind |-> "error", key |-> "", chunk |-> "", tail |-> <<>>]

(* The FrontMatter a pair set decodes to: an optional field is None when    *)
(* its key is absent.                                                      *)
field_value(pairs, key) ==
    LET at == {k \in 1..Len(pairs) : pairs[k].key = key}
    IN  IF at = {} THEN None
        ELSE LET p == pairs[Min(at)] IN Some(<<ValueOf(p.chunk)>> \o p.tail)

(* A mutant of from_str: a missing title is defaulted to the empty string   *)
(* (as #[serde(default)] on the field would do).                           *)
from_str_default_title(front_matter_str) ==
    LET ls == Lines(front_matter_str)
        parsed == [k \in 1..Len(ls) |-> yaml_line(ls[k])]
        pairs == SelectSeq(parsed, LAMBDA l : l.kind = "pair")
        keys == {pairs[k].key : k \in 1..Len(pairs)}
        dates == SelectSeq(pairs, LAMBDA l : l.key = "date")
    IN  IF \E k \in 1..Len(parsed) : parsed[k].kind = "error" THEN Panic("cannot parse front matter")
        ELSE IF Cardinality(keys) # Len(pairs) THEN Panic("cannot parse front matter")
        ELSE IF "date" \notin keys THEN Panic("cannot parse front matter")
        ELSE IF parse_date(dates[1].chunk) = None \/ dates[1].tail # <<>>
        THEN Panic("cannot parse front matter")
        ELSE Ok([title |-> IF "title" \in keys THEN field_value(pairs, "title")[1] ELSE <<>>,
                 date |-> parse_date(dates[1].chunk)[1],
                 description |-> field_value(pairs, "description"),
                 image |-> field_value(pairs, "image")])

(* serde_yaml::from_str::<FrontMatter>(..).expect("cannot parse front       *)
(* matter"): the text must be a mapping, no key twice, with a title and a   *)
(* date that parses as an offset-aware timestamp.                          *)
from_str(front_matter_str) ==
    LET ls == Lines(front_matter_str)
        parsed == [k \in 1..Len(ls) |-> yaml_line(ls[k])]
        pairs == SelectSeq(parsed, LAMBDA l : l.kind = "pair")
        keys == {pairs[k].key : k \in 1..Len(pairs)}
        dates == SelectSeq(pairs, LAMBDA l : l.key = "date")
    IN  IF \E k \in 1..Len(parsed) : parsed[k].kind = "error" THEN Panic("cannot parse front matter")
        ELSE IF Cardinality(keys) # Len(pairs) THEN Panic("cannot parse front matter")
        ELSE IF "title" \notin keys \/ "date" \notin keys THEN Panic("cannot parse front matter")
        ELSE IF parse_date(dates[1].chunk) = None \/ dates[1].tail # <<>>
        THEN Panic("cannot parse front matter")
        ELSE Ok([title |-> field_value(pairs, "title")[1],
                 date |-> parse_date(dates[1].chunk)[1],
                 description |-> field_value(pairs, "description"),
                 image |-> field_value(pairs, "image")])

(* ------------------------------ data.rs ------------------------------- *)

(* The text get_front_matter hands to the decoder: what lies between the   *)
(* first occurrence of "---", which must be at the very start, and the     *)
(* next occurrence.  None when there is no such text.                      *)
front_matter_str(contents) ==
    LET first == split_once(contents, Marker)
    IN  IF first # None /\ first[1][1] = <<>>
        THEN LET second == split_once(first[1][2], Marker)
             IN  IF second # None THEN Some(second[1][1]) ELSE None
        ELSE None

(* A mutant of get_front_matter: the text before the first "---" is not    *)
(* required to be empty.                                                   *)
get_front_matter_any_prefix(contents) ==
    LET first == split_once(contents, Marker)
    IN  IF first # None
        THEN LET second == split_once(first[1][2], Marker)
             IN  IF second # None THEN from_str(second[1][1])
                 ELSE Panic("front matter missing")
        ELSE Panic("front matter missing")

get_front_matter(contents) ==
    LET front == front_matter_str(contents)
    IN  IF front # None THEN from_str(front[1]) ELSE Panic("front matter missing")

(* markdown::to_html_with_options(..).expect("cannot render post html"):   *)
(* the renderer is a library; what it returns for a file is part of the    *)
(* file's record (its HTML, or its refusal).                               *)
to_html_with_options(file) ==
    IF file.render.ok THEN Ok(file.render.val) ELSE Panic("cannot render post html")

(* Whether the pattern src="([^"]+)" matches html from position i: `src=`,  *)
(* a quote, at least one atom that is no quote, a quote.                   *)
closing_quote(html, i) ==
    LET qs == {e \in (i + 2)..Len(html) : html[e] = Quote}
    IN  IF qs = {} THEN 0 ELSE Min(qs)

matches_at(html, i) ==
    /\ i + 3 <= Len(html)
    /\ html[i] = SrcEq
    /\ html[i + 1] = Quote
    /\ closing_quote(html, i) >= i + 3

(* A mutant of captures: the last match instead of the first.              *)
captures_last(html) ==
    LET hits == {i \in 1..Len(html) : matches_at(html, i)}
    IN  IF hits = {} THEN None
        ELSE LET i == CHOOSE m \in hits : \A x \in hits : x <= m
             IN  Some(SubSeq(html, i + 2, closing_quote(html, i) - 1))

(* Regex::captures(&html).map(|img| img[1].to_string()): group 1 of the    *)
(* leftmost match.                                                         *)
captures(html) ==
    LET hits == {i \in 1..Len(html) : matches_at(html, i)}
    IN  IF hits = {} THEN None
        ELSE LET i == Min(hits)
             IN  Some(SubSeq(html, i + 2, closing_quote(html, i) - 1))

(* front_matter.image.or_else(|| captures(&html))                          *)
resolve_image(front_matter_image, html) ==
    IF front_matter_image # None THEN front_matter_image ELSE captures(html)

(* A mutant of path_clone: the name of the content file, not the           *)
(* identifier.                                                             *)
path_file_name(path) == "index.md"

(* path: path.clone()                                                      *)
path_clone(path) == path

(* get_post_for_path: open and read content/blog/<path>/index.md, decode   *)
(* the front matter, render the whole text, resolve the image.             *)
get_post_for_path(path) ==
    LET file == md[path]
    IN  IF ~file.exists THEN Panic("cannot open blog md")
        ELSE IF ~file.readable THEN Panic("cannot read blog md")
        ELSE LET front_matter == get_front_matter(file.contents)
                 html == to_html_with_options(file)
             IN  IF ~front_matter.ok THEN front_matter
                 ELSE IF ~html.ok THEN html
                 ELSE Ok([path |-> path_clone(path),
                          title |-> front_matter.val.title,
                          date |-> front_matter.val.date,
                          description |-> front_matter.val.description,
                          html |-> html.val,
                          image |-> resolve_image(front_matter.val.image, html.val)])

(* Whether filter_map's closure panics on an entry: file_type().unwrap()   *)
(* on an entry whose type cannot be read, into_string().unwrap() on a      *)
(* directory whose name is not Unicode.                                    *)
closure_panics(d) == d.kind = "unknown" \/ (d.kind = "dir" /\ ~d.unicode)

(* A mutant of filter_map_dirs: every entry's name, directory or not.      *)
all_entry_names(entries) ==
    IF \E k \in 1..Len(entries) : closure_panics(entries[k])
    THEN Panic("unwrap on an Err value")
    ELSE Ok([k \in 1..Len(entries) |-> entries[k].name])

(* .filter_map(|d| if d.file_type().unwrap().is_dir()                       *)
(*                 { Some(d.file_name().into_string().unwrap()) } ...)      *)
filter_map_dirs(entries) ==
    IF \E k \in 1..Len(entries) : closure_panics(entries[k])
    THEN Panic("unwrap on an Err value")
    ELSE LET dirs == SelectSeq(entries, LAMBDA d : d.kind = "dir")
         IN  Ok([k \in 1..Len(dirs) |-> dirs[k].name])

(* get_blog_directories: read_dir of the content root, collected, then the *)
(* names of the entries that are directories.  Only the root is listed.    *)
get_blog_directories ==
    IF ~root.readable THEN Panic("cannot read blog directory")
    ELSE IF \E k \in 1..Len(root.entries) : root.entries[k].kind = "unreadable"
    THEN Panic("cannot read blog entry")
    ELSE filter_map_dirs(root.entries)

(* ------------------------- templates/index.rs -------------------------- *)

(* A mutant of collect_posts: a post that fails to assemble is skipped.    *)
collect_posts_skipping(paths) ==
    LET results == [k \in 1..Len(paths) |-> get_post_for_path(paths[k])]
        good == SelectSeq(results, LAMBDA r : r.ok)
    IN  Ok([k \in 1..Len(good) |-> good[k].val])

(* .iter().map(crate::data::get_post_for_path).collect(): the posts in     *)
(* enumeration order; the first panic ends the build.                      *)
collect_posts(paths) ==
    LET results == [k \in 1..Len(paths) |-> get_post_for_path(paths[k])]
        failed == {k \in 1..Len(paths) : ~results[k].ok}
    IN  IF failed # {} THEN results[Min(failed)]
        ELSE Ok([k \in 1..Len(paths) |-> results[k].val])

(* A stable ascending sort of keyed items: an item comes after every item  *)
(* of a smaller key and after the items of the same key that preceded it.  *)
stable_sort(items) ==
    LET n == Len(items)
        rank == [k \in 1..n |->
                   1 + Cardinality({j \in 1..n :
                                      \/ items[j].key < items[k].key
                                      \/ items[j].key = items[k].key /\ j < k})]
    IN  [p \in 1..n |-> items[CHOOSE k \in 1..n : rank[k] = p].post]

(* A mutant of sort_by_key: the key is the local time, the offset ignored. *)
sort_by_local_time(posts) ==
    stable_sort([k \in 1..Len(posts) |-> [key |-> posts[k].date.local, post |-> posts[k]]])

(* posts.sort_by_key(|post| post.date.clone()): stable, ascending by the   *)
(* instant.                                                                *)
sort_by_key(posts) ==
    stable_sort([k \in 1..Len(posts) |-> [key |-> instant(posts[k].date), post |-> posts[k]]])

rev(posts) == [k \in 1..Len(posts) |-> posts[Len(posts) + 1 - k]]

(* A mutant of sorted_newest_first: a stable descending sort               *)
(* (sort_by_key with Reverse(date)), nothing reversed.                     *)
sort_descending(posts) ==
    stable_sort([k \in 1..Len(posts) |-> [key |-> 0 - instant(posts[k].date), post |-> posts[k]]])

(* posts.sort_by_key(..); posts.into_iter().rev().collect()                *)
sorted_newest_first(posts) ==
    LET sorted == sort_by_key(posts) IN rev(sorted)

(* A mutant of index_posts: a post of the same instant as the one before   *)
(* it is dropped (dedup_by_key on the date).                               *)
index_posts_dedup(paths) ==
    LET posts == collect_posts(paths)
    IN  IF ~posts.ok THEN posts
        ELSE LET s == sorted_newest_first(posts.val)
                 keep == {k \in 1..Len(s) :
                            k = 1 \/ instant(s[k - 1].date) # instant(s[k].date)}
             IN  Ok([p \in 1..Cardinality(keep) |->
                       s[CHOOSE k \in keep : Cardinality({q \in keep : q <= k}) = p]])

(* get_build_state of the index template, after the enumeration.           *)
index_posts(paths) ==
    LET posts == collect_posts(paths)
    IN  IF ~posts.ok THEN posts ELSE Ok(sorted_newest_first(posts.val))

(* get_build_state of the index template (Index { posts }).                *)
index_build_state ==
    LET dirs == get_blog_directories
    IN  IF ~dirs.ok THEN dirs ELSE index_posts(dirs.val)

(* ------------------------- the content on disk ------------------------- *)

(* The names of the root's entries in the order read_dir lists them (its   *)
(* native order, which is not the alphabetical one).  The code never looks *)
(* into a name, so which names these are makes no difference.              *)
AllNames == <<"b", "a", "d", "c", "f", "e", "h", "g">>

DirNames == {AllNames[k] : k \in 1..MaxEntries}

HtmlAtoms == {SrcEq, Quote, "a.png", "<p>"}

Body == <<"Hi", Newline>>

(* A content file whose metadata block holds the given lines.              *)
Document(lines) ==
    Marker \o <<Newline>> \o Concat([k \in 1..Len(lines) |-> <<lines[k], Newline>>])
           \o Marker \o <<Newline>> \o Body

File(contents, render) ==
    [exists |-> TRUE, readable |-> TRUE, contents |-> contents, render |-> render]

NoFile == [exists |-> FALSE, readable |-> FALSE, contents |-> <<>>, render |-> Panic("")]

PlainHtml == <<"<p>">>

ImgHtml == <<"<p>", SrcEq, Quote, "a.png", Quote>>

(* The index.md files of the posts: four that assemble, with dates of      *)
(* three instants (two of them the same instant at different offsets),    *)
(* and one for each way a post fails to assemble.                          *)
PostFiles ==
    << File(Document(<<TitleLine, "date: 2023-01-01T02:00:00+02:00">>), Ok(PlainHtml)),
       File(Document(<<TitleLine, "date: 2023-01-01T01:00:00+00:00", ImageLine>>), Ok(ImgHtml)),
       File(Document(<<TitleLine, DescriptionLine, "date: 2023-01-01T03:00:00+02:00">>), Ok(ImgHtml)),
       File(Document(<<"date: 2023-01-01T02:00:00+00:00", TitleLine>>), Ok(PlainHtml)),
       NoFile,
       [File(<<>>, Ok(<<>>)) EXCEPT !.readable = FALSE],
       File(<<TitleLine, Newline>> \o Body, Ok(PlainHtml)),
       File(Document(<<TitleLine, BadDateLine>>), Ok(PlainHtml)),
       File(Document(<<TitleLine, "date: 2023-01-01T01:00:00+00:00">>), Panic("")) >>

Entry(name, kind, unicode, children) ==
    [name |-> name, kind |-> kind, unicode |-> unicode, children |-> children]

Idle ==
    /\ call = "none"
    /\ arg = ""
    /\ ret = Ok(<<>>)

Disk(n, kinds, unicode, children, files) ==
    /\ root = [readable |-> TRUE,
               entries |-> [k \in 1..n |->
                              Entry(AllNames[k], kinds[k], unicode[k], children[k])]]
    /\ md = [name \in DirNames |->
               IF \E k \in 1..n : AllNames[k] = name /\ kinds[k] = "dir"
               THEN files[CHOOSE k \in 1..n : AllNames[k] = name]
               ELSE NoFile]

(* A readable content root of up to MaxEntries entries: plain files, and   *)
(* post directories holding one of the index.md files above.               *)
Init ==
    /\ \E n \in 0..MaxEntries :
         \E pick \in [1..n -> 0..Len(PostFiles)] :
            Disk(n, [k \in 1..n |-> IF pick[k] = 0 THEN "file" ELSE "dir"],
                 [k \in 1..n |-> TRUE], [k \in 1..n |-> <<>>],
                 [k \in 1..n |-> IF pick[k] = 0 THEN NoFile ELSE PostFiles[pick[k]]])
    /\ Idle

(* Content roots as the enumerator may find them: unreadable, or holding   *)
(* files, symlinks, entries that cannot be read, entries whose type cannot *)
(* be read, and directories (their names Unicode or not, with or without a *)
(* subdirectory of their own).                                             *)
EntryKinds == {"dir", "file", "symlink", "unreadable", "unknown"}

InitEnumerator ==
    /\ \/ /\ root = [readable |-> FALSE, entries |-> <<>>]
          /\ md = [name \in DirNames |-> NoFile]
       \/ \E n \in 0..MaxEntries :
            \E kinds \in [1..n -> EntryKinds], flags \in [1..n -> 0..3] :
               /\ \A k \in 1..n : kinds[k] # "dir" => flags[k] = 0
               /\ Disk(n, kinds, [k \in 1..n |-> flags[k] \in {0, 1}],
                       [k \in 1..n |-> IF flags[k] \in {1, 3} THEN <<"nested">> ELSE <<>>],
                       [k \in 1..n |-> PostFiles[1]])
    /\ Idle

(* One post directory whose index.md is any text of up to MaxParts pieces: *)
(* a "---" with or without the newline that ends its line, a hyphen, a     *)
(* newline, a metadata line with or without its newline.                   *)
Parts ==
    { Marker \o <<Newline>>, Marker, <<Hyphen>>, <<Newline>>,
      <<TitleLine, Newline>>, <<TitleLine>>,
      <<"date: 2023-01-01T01:00:00+00:00", Newline>>, <<BadDateLine, Newline>> }

InitFrontMatter ==
    /\ \E parts \in SeqsUpTo(Parts, MaxParts) :
          Disk(1, <<"dir">>, <<TRUE>>, <<<<>>>>, <<File(Concat(parts), Ok(PlainHtml))>>)
    /\ Idle

(* One post directory whose index.md has front matter with or without an   *)
(* image, and renders to any HTML of up to MaxHtml atoms.                   *)
InitImage ==
    /\ \E html \in SeqsUpTo(HtmlAtoms, MaxHtml) :
         \E lines \in { <<TitleLine, "date: 2023-01-01T01:00:00+00:00">>,
                        <<TitleLine, "date: 2023-01-01T01:00:00+00:00", ImageLine>> } :
            Disk(1, <<"dir">>, <<TRUE>>, <<<<>>>>, <<File(Document(lines), Ok(html))>>)
    /\ Idle

(* -------------------------- the build's calls -------------------------- *)

(* templates/post.rs get_build_paths                                       *)
get_build_paths ==
    /\ call' = "get_build_paths"
    /\ arg' = ""
    /\ ret' = get_blog_directories
    /\ UNCHANGED <<root, md>>

(* templates/index.rs get_build_state                                      *)
index_get_build_state ==
    /\ call' = "index"
    /\ arg' = ""
    /\ ret' = index_build_state
    /\ UNCHANGED <<root, md>>

(* templates/post.rs get_build_state, called by the framework for each     *)
(* path that get_build_paths returned.                                     *)
post_get_build_state ==
    LET paths == get_blog_directories
    IN  /\ paths.ok
        /\ \E k \in 1..Len(paths.val) :
              /\ call' = "post"
              /\ arg' = paths.val[k]
              /\ ret' = get_post_for_path(paths.val[k])
        /\ UNCHANGED <<root, md>>

Next ==
    \/ get_build_paths
    \/ index_get_build_state
    \/ post_get_build_state

Spec == Init /\ [][Next]_vars

SpecEnumerator == InitEnumerator /\ [][Next]_vars

SpecFrontMatter == InitFrontMatter /\ [][Next]_vars

SpecImage == InitImage /\ [][Next]_vars

(* ------------------------------- claims -------------------------------- *)

Posts == ret.val

IndexBuilt == call = "index" /\ ret.ok

(* The root's entries that are directories, and where the listing has them. *)
IsDirectory(name) ==
    \E k \in 1..Len(root.entries) :
        root.entries[k].name = name /\ root.entries[k].kind = "dir"

Discovered(name) == CHOOSE k \in 1..Len(root.entries) : root.entries[k].name = name

DistinctDates ==
    \A i, j \in 1..Len(Posts) : i # j => instant(Posts[i].date) # instant(Posts[j].date)

(* C1: when every post assembles and no two posts have the same instant,   *)
(* the index's posts are in strictly descending order of instant.          *)
C1_StrictlyDescending ==
    (IndexBuilt /\ DistinctDates) =>
        \A i \in 1..(Len(Posts) - 1) :
            instant(Posts[i].date) > instant(Posts[i + 1].date)

(* Three posts of three instants, listed oldest first or in no order, one  *)
(* of them at another offset.                                              *)
C1_Witness ==
    /\ IndexBuilt
    /\ DistinctDates
    /\ Len(Posts) >= 3
    /\ Posts[1].path # root.entries[1].name
    /\ \E i \in 1..Len(Posts) : Posts[i].date.offset # 0

(* C2, as claimed: two posts of the same instant are in the index in the   *)
(* order the enumeration found them.                                       *)
C2_TiesInDiscoveryOrder ==
    IndexBuilt =>
        \A i, j \in 1..Len(Posts) :
            (i < j /\ instant(Posts[i].date) = instant(Posts[j].date))
                => Discovered(Posts[i].path) < Discovered(Posts[j].path)

(* C2, amended: two posts of the same instant are in the index in the      *)
(* reverse of the order the enumeration found them.                        *)
C2_TiesInReverseDiscoveryOrder ==
    IndexBuilt =>
        \A i, j \in 1..Len(Posts) :
            (i < j /\ instant(Posts[i].date) = instant(Posts[j].date))
                => Discovered(Posts[i].path) > Discovered(Posts[j].path)

C2_Witness ==
    /\ IndexBuilt
    /\ \E i, j \in 1..Len(Posts) :
          /\ i < j
          /\ instant(Posts[i].date) = instant(Posts[j].date)
          /\ Posts[i].date # Posts[j].date

(* The file of the post a detail page was built for.                       *)
Built == md[arg]

SuppliesImage(contents) == \E k \in 1..Len(contents) : contents[k] = ImageLine

(* html holds src="v" from position i to the closing quote at e; v is      *)
(* empty when e = i + 2.                                                   *)
SrcAttribute(html, i, e) ==
    /\ i + 2 <= e
    /\ e <= Len(html)
    /\ html[i] = SrcEq
    /\ html[i + 1] = Quote
    /\ html[e] = Quote
    /\ \A m \in (i + 2)..(e - 1) : html[m] # Quote

(* The image the claim's precedence gives, an attribute counting when its  *)
(* value has at least minLen atoms.                                        *)
ImageByPrecedence(contents, html, minLen) ==
    LET occ == {i \in 1..Len(html) :
                  \E e \in 1..Len(html) : SrcAttribute(html, i, e) /\ e - i - 2 >= minLen}
    IN  IF SuppliesImage(contents) THEN Some(<<"cover.png">>)
        ELSE IF occ = {} THEN None
        ELSE LET i == Min(occ)
                 e == CHOOSE x \in 1..Len(html) : SrcAttribute(html, i, x)
             IN  Some(SubSeq(html, i + 2, e - 1))

(* C3, as claimed: the front matter's image if it has one, else the value  *)
(* of the first src="..." of the HTML, else none.                          *)
C3_FirstSrcAttribute ==
    (call = "post" /\ ret.ok) =>
        ret.val.image = ImageByPrecedence(Built.contents, ret.val.html, 0)

(* C3, amended: the front matter's image if it has one, else the value of  *)
(* the first src="..." of the HTML whose value is not empty, else none.    *)
C3_FirstNonEmptySrcAttribute ==
    (call = "post" /\ ret.ok) =>
        ret.val.image = ImageByPrecedence(Built.contents, ret.val.html, 1)

(* No image in the front matter; the HTML has an empty src="" and, after   *)
(* it, one with a value, which is the post's image.                        *)
C3_Witness ==
    /\ call = "post"
    /\ ret.ok
    /\ ~SuppliesImage(Built.contents)
    /\ ret.val.image # None
    /\ \E i, j \in 1..Len(ret.val.html) :
          /\ i < j
          /\ SrcAttribute(ret.val.html, i, i + 2)
          /\ \E e \in 1..Len(ret.val.html) : SrcAttribute(ret.val.html, j, e) /\ e > j + 2

(* C4: when the post of any enumerated directory fails to assemble, the    *)
(* index build fails and yields no collection.                             *)
C4_AllOrNothing ==
    (/\ call = "index"
     /\ \E name \in DirNames : IsDirectory(name) /\ ~get_post_for_path(name).ok)
        => (~ret.ok /\ ret.val = <<>>)

(* One post assembles, another does not render: the build fails.           *)
C4_Witness ==
    /\ call = "index"
    /\ ~ret.ok
    /\ ret.msg = "cannot render post html"
    /\ \E name \in DirNames : IsDirectory(name) /\ get_post_for_path(name).ok

Clean ==
    /\ root.readable
    /\ \A k \in 1..Len(root.entries) :
          /\ root.entries[k].kind \notin {"unreadable", "unknown"}
          /\ root.entries[k].kind = "dir" => root.entries[k].unicode

FromItsDirectory(post) ==
    /\ post.path \in DirNames
    /\ IsDirectory(post.path)
    /\ post.html = md[post.path].render.val
    /\ \E k \in 1..Len(md[post.path].contents) :
          parse_date(md[post.path].contents[k]) = Some(post.date)

(* C6: a detail page's post has the requested identifier as its path, and  *)
(* every post of the index has the name of its own directory as its path.  *)
C6_PathIsIdentifier ==
    /\ (call = "post" /\ ret.ok) => ret.val.path = arg
    /\ IndexBuilt => \A k \in 1..Len(Posts) : FromItsDirectory(Posts[k])

(* An index of several posts that is not in listing order.                 *)
C6_Witness ==
    /\ IndexBuilt
    /\ Len(Posts) >= 2
    /\ Posts[1].path # root.entries[1].name
    /\ Posts[1].date # Posts[2].date

(* The text of the one index.md of SpecFrontMatter.                        *)
Contents == md[AllNames[1]].contents

BeginsWithMarker(text) == IsAt(text, Marker, 1)

HasClosingMarker(text) == \E i \in (Len(Marker) + 1)..Len(text) : IsAt(text, Marker, i)

(* The text between the "---" that begins the text and the next "---".     *)
Enclosed(text) ==
    SubSeq(text, Len(Marker) + 1,
           Min({i \in (Len(Marker) + 1)..Len(text) : IsAt(text, Marker, i)}) - 1)

(* C7: a text that does not begin with "---", or has no "---" after that   *)
(* one, fails with "front matter missing": the detail page gets no post    *)
(* and the index gets no collection.                                       *)
C7_MissingFrontMatterFails ==
    (/\ call \in {"post", "index"}
     /\ ~BeginsWithMarker(Contents) \/ ~HasClosingMarker(Contents))
        => (~ret.ok /\ ret.msg = "front matter missing")

(* A newline precedes a text that, alone, has front matter that decodes.   *)
C7_Witness ==
    /\ call = "post"
    /\ Contents # <<>>
    /\ Contents[1] = Newline
    /\ get_front_matter(Tail(Contents)).ok
    /\ ret.msg = "front matter missing"

(* Whether the text has a line whose key and value are one of the chunks   *)
(* (a line that only holds the chunk behind other text is another key's).  *)
HasLine(text, chunks) ==
    \E k \in 1..Len(Lines(text)) :
        Lines(text)[k] # <<>> /\ Lines(text)[k][1] \in chunks

(* C8: with both markers there, metadata that has no title line, no date   *)
(* line, or a date line whose value is no timestamp fails with "cannot     *)
(* parse front matter".                                                    *)
C8_MalformedFrontMatterFails ==
    (/\ call \in {"post", "index"}
     /\ BeginsWithMarker(Contents)
     /\ HasClosingMarker(Contents)
     /\ \/ ~HasLine(Enclosed(Contents), {TitleLine})
        \/ ~HasLine(Enclosed(Contents), DateLines \cup {BadDateLine})
        \/ HasLine(Enclosed(Contents), {BadDateLine}))
        => (~ret.ok /\ ret.msg = "cannot parse front matter")

(* Metadata that is a date line and nothing else.                          *)
C8_Witness ==
    /\ call = "post"
    /\ BeginsWithMarker(Contents)
    /\ HasClosingMarker(Contents)
    /\ \E d \in DateLines : Enclosed(Contents) = <<Newline, d, Newline>>
    /\ ret.msg = "cannot parse front matter"

(* C9: the metadata get_front_matter decodes is delimited by marker lines: *)
(* when the text's first line is "---", a later line is "---" and the      *)
(* lines between them are `key: value` lines, what is decoded is those     *)
(* lines.                                                                  *)
C9_DelimitedByMarkerLines ==
    LET ls == Lines(Contents)
        closing == {j \in 2..Len(ls) : ls[j] = Marker}
    IN  (/\ call = "post"
         /\ ls[1] = Marker
         /\ closing # {}
         /\ \A m \in 2..(Min(closing) - 1) : ls[m] # <<>> /\ ls[m][1] \in FieldChunks) =>
            /\ front_matter_str(Contents) # None
            /\ Lines(front_matter_str(Contents)[1])
                  = <<<<>>>> \o SubSeq(ls, 2, Min(closing) - 1) \o <<<<>>>>

(* C10: the index's posts are the enumerated directories, one post each.   *)
C10_OnePostPerDirectory ==
    IndexBuilt =>
        /\ Len(Posts) = Cardinality({name \in DirNames : IsDirectory(name)})
        /\ \A k \in 1..Len(Posts) : Posts[k].path \in DirNames /\ IsDirectory(Posts[k].path)
        /\ \A i, j \in 1..Len(Posts) : i # j => Posts[i].path # Posts[j].path

(* Two posts of the same instant and a plain file beside them.             *)
C10_Witness ==
    /\ IndexBuilt
    /\ Len(Posts) >= 2
    /\ instant(Posts[1].date) = instant(Posts[2].date)
    /\ \E k \in 1..Len(root.entries) : root.entries[k].kind = "file"

====
